---- MODULE Spec2Model ----
(***************************************************************************)
(* Model of the LLMs.txt generator page (src/src/app/page.tsx): the form   *)
(* state of the Home component, the regeneration effect that derives the   *)
(* directive text from it, and the copy and download handlers.             *)
(*                                                                         *)
(* A JavaScript string is a sequence of one-character strings, so that     *)
(* trimming, concatenation and joining are computed character by           *)
(* character as the code computes them.                                    *)
(***************************************************************************)
EXTENDS Integers, Sequences, FiniteSets, TLC

----------------------------------------------------------------------------
(* Bounds of the model.                                                    *)

\* longest site URL / contact a user types in the page model
MaxLen ==
    2

\* longest site URL / contact fed to the generator in the function model
MaxGenLen ==
    3

\* number of user events (edits, toggles, clicks) explored
MaxEvents ==
    3

\* clipboard writes that may be awaiting their result at once
MaxPending ==
    1

\* characters a typed string is made of: a whitespace and a non-whitespace
Alphabet ==
    {" ", "a"}

\* characters String.prototype.trim removes
WhiteSpace ==
    {" ", "\t", "\n", "\r"}

NewLine ==
    <<"\n">>

----------------------------------------------------------------------------
(* String literals of the source.                                          *)

HeaderPrefix ==
    <<"#"," ","L","L","M","s",".","t","x","t"," ","g","e","n","e","r","a","t",
    "e","d"," ","f","o","r"," ">>

YourSite ==
    <<"y","o","u","r"," ","s","i","t","e">>

UserAgentStar ==
    <<"U","s","e","r","-","A","g","e","n","t",":"," ","*">>

UserAgentPrefix ==
    <<"U","s","e","r","-","A","g","e","n","t",":"," ">>

AllowLine ==
    <<"A","l","l","o","w",":"," ","/">>

DisallowLine ==
    <<"D","i","s","a","l","l","o","w",":"," ","/">>

ContactPrefix ==
    <<"#"," ","C","o","n","t","a","c","t",":"," ">>

FileName ==
    <<"L","L","M","s",".","t","x","t">>

Name_OpenAI ==
    <<"O","p","e","n","A","I">>

Name_Perplexity ==
    <<"P","e","r","p","l","e","x","i","t","y">>

Name_ClaudeBot ==
    <<"C","l","a","u","d","e","B","o","t">>

Name_Google_Extended ==
    <<"G","o","o","g","l","e","-","E","x","t","e","n","d","e","d">>

Name_CCBot ==
    <<"C","C","B","o","t">>

----------------------------------------------------------------------------
(* The agent catalog and the pure functions of the regeneration effect.    *)

\* llmList with ClaudeBot allowed by default
llmList_ClaudeBotAllowed ==
    << [name |-> Name_OpenAI,          defaultAllow |-> TRUE],
       [name |-> Name_Perplexity,      defaultAllow |-> TRUE],
       [name |-> Name_ClaudeBot,       defaultAllow |-> TRUE],
       [name |-> Name_Google_Extended, defaultAllow |-> FALSE],
       [name |-> Name_CCBot,           defaultAllow |-> FALSE] >>

llmList ==
    << [name |-> Name_OpenAI,          defaultAllow |-> TRUE],
       [name |-> Name_Perplexity,      defaultAllow |-> TRUE],
       [name |-> Name_ClaudeBot,       defaultAllow |-> FALSE],
       [name |-> Name_Google_Extended, defaultAllow |-> FALSE],
       [name |-> Name_CCBot,           defaultAllow |-> FALSE] >>

AgentNames ==
    { llmList[i].name : i \in DOMAIN llmList }

\* Object.fromEntries(llmList.map(...)): the last entry of a name wins
initialSettings ==
    [ n \in AgentNames |->
        LET last == CHOOSE i \in DOMAIN llmList :
                      /\ llmList[i].name = n
                      /\ \A j \in DOMAIN llmList : llmList[j].name = n => j <= i
        IN  llmList[last].defaultAllow ]

RECURSIVE trimStart(_)
trimStart(s) ==
    IF s # <<>> /\ Head(s) \in WhiteSpace THEN trimStart(Tail(s)) ELSE s

RECURSIVE trimEnd(_)
trimEnd(s) ==
    IF s # <<>> /\ s[Len(s)] \in WhiteSpace
    THEN trimEnd(SubSeq(s, 1, Len(s) - 1))
    ELSE s

\* String.prototype.trim
trim(s) ==
    trimEnd(trimStart(s))

\* Array.prototype.join
RECURSIVE join(_, _)
join(lines, sep) ==
    IF lines = <<>> THEN <<>>
    ELSE IF Len(lines) = 1 THEN lines[1]
    ELSE lines[1] \o sep \o join(Tail(lines), sep)

\* list.forEach(({ name }) => { lines.push(""); lines.push(`User-Agent: ...`);
\*                              lines.push(allow ? "Allow: /" : "Disallow: /") })
RECURSIVE pushAgents(_, _)
pushAgents(list, p) ==
    IF list = <<>> THEN <<>>
    ELSE << <<>>,
            UserAgentPrefix \o Head(list).name,
            IF p[Head(list).name] THEN AllowLine ELSE DisallowLine >>
         \o pushAgents(Tail(list), p)

\* the agents of a list that p allows, then those it does not
allowedFirst(list, p) ==
    SelectSeq(list, LAMBDA e : p[e.name]) \o SelectSeq(list, LAMBDA e : ~p[e.name])

\* GenerateContent with the header built from the untrimmed URL:
\* siteUrl || "your site"
GenerateContent_untrimmedUrl(s, c, p) ==
    LET urlDisplay  == IF s # <<>> THEN s ELSE YourSite
        contactTrim == trim(c)
        lines       == << HeaderPrefix \o urlDisplay, UserAgentStar, DisallowLine >>
                       \o pushAgents(llmList, p)
                       \o (IF contactTrim # <<>>
                           THEN << <<>>, ContactPrefix \o contactTrim >>
                           ELSE <<>>)
    IN  join(lines, NewLine)

\* GenerateContent with the contact tested before trimming: if (contact)
GenerateContent_untrimmedContactTest(s, c, p) ==
    LET urlTrim     == trim(s)
        urlDisplay  == IF urlTrim # <<>> THEN urlTrim ELSE YourSite
        contactTrim == trim(c)
        lines       == << HeaderPrefix \o urlDisplay, UserAgentStar, DisallowLine >>
                       \o pushAgents(llmList, p)
                       \o (IF c # <<>>
                           THEN << <<>>, ContactPrefix \o contactTrim >>
                           ELSE <<>>)
    IN  join(lines, NewLine)

\* GenerateContent with the allowed agents listed before the disallowed ones
GenerateContent_allowedFirst(s, c, p) ==
    LET urlTrim     == trim(s)
        urlDisplay  == IF urlTrim # <<>> THEN urlTrim ELSE YourSite
        contactTrim == trim(c)
        lines       == << HeaderPrefix \o urlDisplay, UserAgentStar, DisallowLine >>
                       \o pushAgents(allowedFirst(llmList, p), p)
                       \o (IF contactTrim # <<>>
                           THEN << <<>>, ContactPrefix \o contactTrim >>
                           ELSE <<>>)
    IN  join(lines, NewLine)

\* the body of the regeneration effect up to lines.join("\n")
GenerateContent(s, c, p) ==
    LET urlTrim     == trim(s)
        urlDisplay  == IF urlTrim # <<>> THEN urlTrim ELSE YourSite
        contactTrim == trim(c)
        lines       == << HeaderPrefix \o urlDisplay, UserAgentStar, DisallowLine >>
                       \o pushAgents(llmList, p)
                       \o (IF contactTrim # <<>>
                           THEN << <<>>, ContactPrefix \o contactTrim >>
                           ELSE <<>>)
    IN  join(lines, NewLine)

----------------------------------------------------------------------------
(* Inputs.                                                                 *)

RECURSIVE StringsUpTo(_)
StringsUpTo(n) ==
    IF n = 0 THEN { <<>> }
    ELSE LET shorter == StringsUpTo(n - 1)
         IN  shorter \cup { Append(s, ch) : s \in shorter, ch \in Alphabet }

InputStrings ==
    StringsUpTo(MaxLen)

GenStrings ==
    StringsUpTo(MaxGenLen)

----------------------------------------------------------------------------
(* State.                                                                  *)

VARIABLES
    siteUrl,           \* useState("")  the website URL field
    contact,           \* useState("")  the contact field
    settings,          \* useState(...) agent name -> allowed
    generatedContent,  \* useState("")  the text shown, copied and downloaded
    copied,            \* useState(false) the copy button shows "Copied!"
    effectPending,     \* the regeneration effect of the first render has not run yet
    pendingWrites,     \* texts handed to clipboard.writeText, result not yet known
    clipboard,         \* <<>> or <<t>>: t is the last text written successfully
    consoleErrors,     \* number of console.error calls
    downloaded,        \* <<>> or <<f>>: f is the last file saved
    events,            \* number of user events so far
    inputEvents,       \* number of edits and toggles so far
    regenerations,     \* number of runs of the regeneration effect so far
    copyClicks,        \* number of clicks on the copy button so far
    writeAttempts,     \* number of clipboard.writeText calls so far
    dirty,             \* an input changed since the last successful copy
    lastToggle         \* the agent the previous step toggled and the state it
                       \* toggled from; NoToggle when that step was no toggle

formVars ==
    <<siteUrl, contact, settings>>

vars ==
    <<siteUrl, contact, settings, generatedContent, copied, effectPending,
      pendingWrites, clipboard, consoleErrors, downloaded, events,
      inputEvents, regenerations, copyClicks, writeAttempts, dirty,
      lastToggle>>

NoToggle ==
    [name |-> <<>>, settingsBefore |-> initialSettings, textBefore |-> <<>>]

Init ==
    /\ siteUrl = <<>>
    /\ contact = <<>>
    /\ settings = initialSettings
    /\ generatedContent = <<>>
    /\ copied = FALSE
    /\ effectPending = TRUE
    /\ pendingWrites = <<>>
    /\ clipboard = <<>>
    /\ consoleErrors = 0
    /\ downloaded = <<>>
    /\ events = 0
    /\ inputEvents = 0
    /\ regenerations = 0
    /\ copyClicks = 0
    /\ writeAttempts = 0
    /\ dirty = FALSE
    /\ lastToggle = NoToggle

----------------------------------------------------------------------------
(* The regeneration effect and the render that schedules it.               *)

\* the dependency list [siteUrl, contact, settings] compared with the last render
depsChanged(s, c, p) ==
    s # siteUrl \/ c # contact \/ p # settings

\* Render with the copied indicator in the effect's dependency list:
\* [siteUrl, contact, settings, copied]
Render_copiedInDeps(s, c, p, cp) ==
    IF ~depsChanged(s, c, p) /\ cp = copied
    THEN UNCHANGED <<siteUrl, contact, settings, generatedContent, copied,
                     effectPending, regenerations>>
    ELSE LET runs == (IF effectPending THEN 1 ELSE 0)
                     + (IF depsChanged(s, c, p) \/ cp # copied THEN 1 ELSE 0)
         IN  /\ siteUrl' = s
             /\ contact' = c
             /\ settings' = p
             /\ effectPending' = FALSE
             /\ regenerations' = regenerations + runs
             /\ generatedContent' = IF runs > 0 THEN GenerateContent(s, c, p)
                                    ELSE generatedContent
             /\ copied' = IF runs > 0 THEN FALSE ELSE cp

\* The render caused by state updates that give the form state (s, c, p) and
\* the copied indicator cp.  An update that changes nothing causes no render.
\* A render first runs an effect still pending from the previous one, then
\* runs the effect again when a dependency changed; the effect's own updates
\* (setGeneratedContent, setCopied(false)) are applied last and change no
\* dependency.
Render(s, c, p, cp) ==
    IF ~depsChanged(s, c, p) /\ cp = copied
    THEN UNCHANGED <<siteUrl, contact, settings, generatedContent, copied,
                     effectPending, regenerations>>
    ELSE LET runs == (IF effectPending THEN 1 ELSE 0)
                     + (IF depsChanged(s, c, p) THEN 1 ELSE 0)
         IN  /\ siteUrl' = s
             /\ contact' = c
             /\ settings' = p
             /\ effectPending' = FALSE
             /\ regenerations' = regenerations + runs
             /\ generatedContent' = IF runs > 0 THEN GenerateContent(s, c, p)
                                    ELSE generatedContent
             /\ copied' = IF runs > 0 THEN FALSE ELSE cp

\* The effect of the first render, run by the scheduler after that render is
\* committed: the handlers are live from the commit on, so a user event may
\* come first.  An effect caused by an edit or a toggle runs within that
\* event (Render).
RunEffect ==
    /\ effectPending
    /\ generatedContent' = GenerateContent(siteUrl, contact, settings)
    /\ copied' = FALSE
    /\ effectPending' = FALSE
    /\ regenerations' = regenerations + 1
    /\ lastToggle' = NoToggle
    /\ UNCHANGED <<siteUrl, contact, settings, pendingWrites, clipboard,
                   consoleErrors, downloaded, events, inputEvents,
                   copyClicks, writeAttempts, dirty>>

----------------------------------------------------------------------------
(* Event handlers.                                                         *)

\* onChange={(e) => setSiteUrl(e.target.value)}
setSiteUrl(v) ==
    /\ events < MaxEvents
    /\ v # siteUrl
    /\ Render(v, contact, settings, copied)
    /\ events' = events + 1
    /\ inputEvents' = inputEvents + 1
    /\ dirty' = TRUE
    /\ lastToggle' = NoToggle
    /\ UNCHANGED <<pendingWrites, clipboard, consoleErrors, downloaded,
                   copyClicks, writeAttempts>>

\* onChange={(e) => setContact(e.target.value)}
setContact(v) ==
    /\ events < MaxEvents
    /\ v # contact
    /\ Render(siteUrl, v, settings, copied)
    /\ events' = events + 1
    /\ inputEvents' = inputEvents + 1
    /\ dirty' = TRUE
    /\ lastToggle' = NoToggle
    /\ UNCHANGED <<pendingWrites, clipboard, consoleErrors, downloaded,
                   copyClicks, writeAttempts>>

\* setSettings((prev) => ({ ...prev, [name]: !prev[name] }))
toggleSetting(name) ==
    /\ events < MaxEvents
    /\ Render(siteUrl, contact, [settings EXCEPT ![name] = ~settings[name]], copied)
    /\ events' = events + 1
    /\ inputEvents' = inputEvents + 1
    /\ dirty' = TRUE
    /\ lastToggle' = [name |-> name, settingsBefore |-> settings,
                      textBefore |-> generatedContent]
    /\ UNCHANGED <<pendingWrites, clipboard, consoleErrors, downloaded,
                   copyClicks, writeAttempts>>

\* handleCopy up to the await: navigator.clipboard.writeText(generatedContent)
handleCopy ==
    /\ events < MaxEvents
    /\ Len(pendingWrites) < MaxPending
    /\ pendingWrites' = Append(pendingWrites, generatedContent)
    /\ writeAttempts' = writeAttempts + 1
    /\ copyClicks' = copyClicks + 1
    /\ events' = events + 1
    /\ lastToggle' = NoToggle
    /\ UNCHANGED <<siteUrl, contact, settings, generatedContent, copied,
                   effectPending, clipboard, consoleErrors, downloaded,
                   inputEvents, regenerations, dirty>>

Remove(q, i) ==
    SubSeq(q, 1, i - 1) \o SubSeq(q, i + 1, Len(q))

\* handleCopy after the await, the write succeeded: setCopied(true)
handleCopyResolved(i) ==
    /\ i \in DOMAIN pendingWrites
    /\ clipboard' = << pendingWrites[i] >>
    /\ pendingWrites' = Remove(pendingWrites, i)
    /\ Render(siteUrl, contact, settings, TRUE)
    /\ dirty' = FALSE
    /\ lastToggle' = NoToggle
    /\ UNCHANGED <<consoleErrors, downloaded, events, inputEvents,
                   copyClicks, writeAttempts>>

\* handleCopyRejected with the catch block confirming the copy: setCopied(true)
handleCopyRejected_confirms(i) ==
    /\ i \in DOMAIN pendingWrites
    /\ pendingWrites' = Remove(pendingWrites, i)
    /\ consoleErrors' = consoleErrors + 1
    /\ Render(siteUrl, contact, settings, TRUE)
    /\ lastToggle' = NoToggle
    /\ UNCHANGED <<clipboard, downloaded, events, inputEvents,
                   copyClicks, writeAttempts, dirty>>

\* handleCopy after the await, the write failed:
\* catch (err) { console.error(err); setCopied(false); }
handleCopyRejected(i) ==
    /\ i \in DOMAIN pendingWrites
    /\ pendingWrites' = Remove(pendingWrites, i)
    /\ consoleErrors' = consoleErrors + 1
    /\ Render(siteUrl, contact, settings, FALSE)
    /\ lastToggle' = NoToggle
    /\ UNCHANGED <<clipboard, downloaded, events, inputEvents,
                   copyClicks, writeAttempts, dirty>>

\* new Blob([generatedContent], { type: "text/plain" }); link.download = "LLMs.txt"
handleDownload ==
    /\ events < MaxEvents
    /\ downloaded' = << [name |-> FileName, content |-> generatedContent] >>
    /\ events' = events + 1
    /\ lastToggle' = NoToggle
    /\ UNCHANGED <<siteUrl, contact, settings, generatedContent, copied,
                   effectPending, pendingWrites, clipboard, consoleErrors,
                   inputEvents, regenerations, copyClicks, writeAttempts, dirty>>

----------------------------------------------------------------------------
(* Specifications.                                                         *)

Next ==
    \/ RunEffect
    \/ \E v \in InputStrings : setSiteUrl(v)
    \/ \E v \in InputStrings : setContact(v)
    \/ \E name \in AgentNames : toggleSetting(name)
    \/ handleCopy
    \/ \E i \in 1..MaxPending : handleCopyResolved(i)
    \/ \E i \in 1..MaxPending : handleCopyRejected(i)
    \/ handleDownload

\* the page from its first render on
Spec ==
    Init /\ [][Next]_vars

\* the scheduler runs a pending effect, and every clipboard write settles
FairSpec ==
    /\ Spec
    /\ WF_vars(RunEffect)
    /\ WF_vars(\E i \in 1..MaxPending : handleCopyResolved(i) \/ handleCopyRejected(i))

\* the generator as a function: any form state, the effect applied to it once
InitGen ==
    /\ siteUrl \in GenStrings
    /\ contact \in GenStrings
    /\ settings \in [AgentNames -> BOOLEAN]
    /\ generatedContent = <<>>
    /\ copied = FALSE
    /\ effectPending = TRUE
    /\ pendingWrites = <<>>
    /\ clipboard = <<>>
    /\ consoleErrors = 0
    /\ downloaded = <<>>
    /\ events = 0
    /\ inputEvents = 0
    /\ regenerations = 0
    /\ copyClicks = 0
    /\ writeAttempts = 0
    /\ dirty = FALSE
    /\ lastToggle = NoToggle

NextGen ==
    RunEffect

SpecGen ==
    InitGen /\ [][NextGen]_vars

----------------------------------------------------------------------------
(* What the specification says of the text, stated without the code's own  *)
(* operators: the lines of a text, the trimmed form of a string, and the   *)
(* catalog as the specification lists it.                                  *)

\* the lines of a text: the pieces between its newline characters
RECURSIVE Split(_)
Split(t) ==
    IF \A i \in DOMAIN t : t[i] # "\n" THEN << t >>
    ELSE LET k == CHOOSE i \in DOMAIN t :
                    /\ t[i] = "\n"
                    /\ \A j \in 1..(i - 1) : t[j] # "\n"
         IN  << SubSeq(t, 1, k - 1) >> \o Split(SubSeq(t, k + 1, Len(t)))

\* t is s without its leading and trailing whitespace
IsTrimOf(t, s) ==
    \E i, j \in 0..Len(s) :
        /\ i + j <= Len(s)
        /\ t = SubSeq(s, i + 1, Len(s) - j)
        /\ \A k \in 1..i : s[k] \in WhiteSpace
        /\ \A k \in (Len(s) - j + 1)..Len(s) : s[k] \in WhiteSpace
        /\ t = <<>> \/ (t[1] \notin WhiteSpace /\ t[Len(t)] \notin WhiteSpace)

Trimmed(s) ==
    CHOOSE t \in { SubSeq(s, a, b) : a \in 1..(Len(s) + 1), b \in 0..Len(s) } :
        IsTrimOf(t, s)

IsPrefix(pre, s) ==
    Len(pre) <= Len(s) /\ SubSeq(s, 1, Len(pre)) = pre

CatalogOrder ==
    << Name_OpenAI, Name_Perplexity, Name_ClaudeBot, Name_Google_Extended,
       Name_CCBot >>

CatalogDefaults ==
    (Name_OpenAI :> TRUE) @@ (Name_Perplexity :> TRUE)
    @@ (Name_ClaudeBot :> FALSE) @@ (Name_Google_Extended :> FALSE)
    @@ (Name_CCBot :> FALSE)

ContactTag ==
    <<"#"," ","C","o","n","t","a","c","t",":">>

PolicyLine(allow) ==
    IF allow THEN AllowLine ELSE DisallowLine

\* the position of catalog agent number i's policy line in the text
PolicyLineOf(i) ==
    3 * i + 3

\* the end-to-end example of the specification, character by character
EndToEndExample ==
    <<"#"," ","L","L","M","s",".","t","x","t"," ","g","e","n","e","r","a","t",
    "e","d"," ","f","o","r"," ","y","o","u","r"," ","s","i","t","e","\n","U",
    "s","e","r","-","A","g","e","n","t",":"," ","*","\n","D","i","s","a","l",
    "l","o","w",":"," ","/","\n","\n","U","s","e","r","-","A","g","e","n","t",
    ":"," ","O","p","e","n","A","I","\n","A","l","l","o","w",":"," ","/","\n",
    "\n","U","s","e","r","-","A","g","e","n","t",":"," ","P","e","r","p","l",
    "e","x","i","t","y","\n","A","l","l","o","w",":"," ","/","\n","\n","U",
    "s","e","r","-","A","g","e","n","t",":"," ","C","l","a","u","d","e","B",
    "o","t","\n","D","i","s","a","l","l","o","w",":"," ","/","\n","\n","U",
    "s","e","r","-","A","g","e","n","t",":"," ","G","o","o","g","l","e","-",
    "E","x","t","e","n","d","e","d","\n","D","i","s","a","l","l","o","w",":",
    " ","/","\n","\n","U","s","e","r","-","A","g","e","n","t",":"," ","C","C",
    "B","o","t","\n","D","i","s","a","l","l","o","w",":"," ","/">>

----------------------------------------------------------------------------
(* C1 *)

\* C1: for every site URL, contact and allow/disallow assignment, the text the
\* generator produces is exactly: the header with the trimmed URL (or
\* "your site"), "User-Agent: *", "Disallow: /", then per catalog agent in
\* catalog order an empty line, its User-Agent line and its Allow or Disallow
\* line, then, only for a non-empty trimmed contact, an empty line and the
\* contact line; joined by single newlines, no trailing newline.
C1_TextIsExactlyTheLines ==
    ~effectPending =>
        LET lines == Split(generatedContent)
            U     == Trimmed(siteUrl)
            K     == Trimmed(contact)
        IN  /\ Len(lines) = IF K = <<>> THEN 18 ELSE 20
            /\ lines[1] = HeaderPrefix \o (IF U = <<>> THEN YourSite ELSE U)
            /\ lines[2] = UserAgentStar
            /\ lines[3] = DisallowLine
            /\ \A i \in 1..5 :
                 /\ lines[3 * i + 1] = <<>>
                 /\ lines[3 * i + 2] = UserAgentPrefix \o CatalogOrder[i]
                 /\ lines[3 * i + 3] = PolicyLine(settings[CatalogOrder[i]])
            /\ K # <<>> => lines[19] = <<>> /\ lines[20] = ContactPrefix \o K
            /\ generatedContent = join(lines, NewLine)

\* a text generated from a padded URL, a padded contact and non-default policies
C1_Witness ==
    /\ ~effectPending
    /\ siteUrl = <<" ", "a", " ">>
    /\ contact = <<"a", " ">>
    /\ settings[Name_ClaudeBot]
    /\ ~settings[Name_OpenAI]

----------------------------------------------------------------------------
(* C2 *)

\* C2: in every state from page load on, the text that is displayed, copied
\* and downloaded is the generator's output for the current site URL, contact
\* and policies; it is never empty or stale.
C2_TextReflectsFormState ==
    generatedContent = GenerateContent(siteUrl, contact, settings)

----------------------------------------------------------------------------
(* C3 *)

\* the User-Agent lines among the lines of a text, in the order they appear
UserAgentLines(lines) ==
    SelectSeq(lines, LAMBDA l : IsPrefix(UserAgentPrefix, l))

BlocksInCatalogOrder(t) ==
    LET lines == Split(t)
    IN  /\ UserAgentLines(lines)
             = << UserAgentStar >>
               \o [i \in 1..5 |-> UserAgentPrefix \o CatalogOrder[i]]
        /\ \A i \in 1..5 :
             /\ lines[3 * i + 1] = <<>>
             /\ lines[3 * i + 2] = UserAgentPrefix \o CatalogOrder[i]
             /\ lines[3 * i + 3] \in {AllowLine, DisallowLine}

\* C3: after any toggle of any agent, whatever was toggled before, the text
\* has exactly one block per catalog agent, in catalog order OpenAI,
\* Perplexity, ClaudeBot, Google-Extended, CCBot.
C3_BlocksKeepCatalogOrder ==
    lastToggle.name \in AgentNames => BlocksInCatalogOrder(generatedContent)

\* a toggle has just flipped an agent, and other agents were flipped before it
C3_Witness ==
    /\ lastToggle.name = Name_ClaudeBot
    /\ ~settings[Name_OpenAI]
    /\ settings[Name_ClaudeBot]

----------------------------------------------------------------------------
(* C4 *)

\* C4: toggling one agent flips only that agent's policy, leaves the other
\* policies, the site URL and the contact unchanged, and changes only that
\* agent's Allow/Disallow line of the text: every other line is the same as
\* in the text before the toggle.
C4_ToggleChangesOnlyItsLine ==
    [][\A i \in 1..5 :
         lastToggle'.name = CatalogOrder[i] =>
           /\ settings'[CatalogOrder[i]] = ~settings[CatalogOrder[i]]
           /\ \A m \in AgentNames \ {CatalogOrder[i]} : settings'[m] = settings[m]
           /\ siteUrl' = siteUrl
           /\ contact' = contact
           /\ LET old == Split(generatedContent)
                  new == Split(generatedContent')
              IN  /\ Len(new) = Len(old)
                  /\ \A k \in DOMAIN new : k # PolicyLineOf(i) => new[k] = old[k]
                  /\ new[PolicyLineOf(i)] = PolicyLine(settings'[CatalogOrder[i]])
                  /\ old[PolicyLineOf(i)] = PolicyLine(settings[CatalogOrder[i]])
      ]_vars

----------------------------------------------------------------------------
(* C5 *)

\* C5: toggling an agent twice in a row returns the policies, and with them
\* the whole text, to what they were before the first of the two toggles.
C5_DoubleToggleRestores ==
    [][\A name \in AgentNames :
         (lastToggle.name = name /\ lastToggle'.name = name) =>
           /\ settings' = lastToggle.settingsBefore
           /\ generatedContent' = lastToggle.textBefore
      ]_vars

----------------------------------------------------------------------------
(* C6 *)

\* the positions of the lines of a text that are contact lines
ContactLines(lines) ==
    { k \in DOMAIN lines : IsPrefix(ContactTag, lines[k]) }

\* C6: for an empty or whitespace-only contact the generated text has no
\* "# Contact:" line and ends with the last catalog agent's policy line; for
\* any other contact it has exactly one, as its last line, after one empty
\* line, carrying the contact without its leading and trailing whitespace.
C6_ContactLine ==
    ~effectPending =>
        LET lines == Split(generatedContent)
            n     == Len(lines)
            K     == Trimmed(contact)
        IN  IF \A k \in DOMAIN contact : contact[k] \in WhiteSpace
            THEN /\ ContactLines(lines) = {}
                 /\ n >= 2
                 /\ lines[n] = PolicyLine(settings[CatalogOrder[5]])
                 /\ lines[n - 1] = UserAgentPrefix \o CatalogOrder[5]
            ELSE /\ ContactLines(lines) = {n}
                 /\ n >= 3
                 /\ lines[n] = ContactPrefix \o K
                 /\ K[1] \notin WhiteSpace /\ K[Len(K)] \notin WhiteSpace
                 /\ lines[n - 1] = <<>>
                 /\ lines[n - 2] # <<>>

\* a text generated from a contact padded on both sides
C6_Witness ==
    /\ ~effectPending
    /\ contact = <<" ", "a", " ">>
    /\ Split(generatedContent)[20] = ContactPrefix \o <<"a">>

----------------------------------------------------------------------------
(* C7 *)

\* C7: when the clipboard write of a copy click fails, the failure is logged,
\* the copied indicator is false afterwards, no further write is attempted
\* (a copy click causes at most one attempt), and the site URL, the contact,
\* the policies, the generated text and the clipboard are left as they were.
C7_FailedCopy ==
    /\ [](writeAttempts <= copyClicks)
    /\ [][\A i \in 1..MaxPending :
            handleCopyRejected(i) =>
              /\ ~copied'
              /\ consoleErrors' = consoleErrors + 1
              /\ writeAttempts' = writeAttempts
              /\ Len(pendingWrites') = Len(pendingWrites) - 1
              /\ siteUrl' = siteUrl
              /\ contact' = contact
              /\ settings' = settings
              /\ generatedContent' = generatedContent
              /\ clipboard' = clipboard
         ]_vars

\* a write has failed after an earlier one had succeeded
C7_Witness ==
    /\ consoleErrors > 0
    /\ clipboard # <<>>
    /\ ~copied
    /\ pendingWrites = <<>>

----------------------------------------------------------------------------
(* C8 *)

IsPageLoadFormState ==
    /\ siteUrl = <<>>
    /\ contact = <<>>
    /\ DOMAIN settings = { CatalogOrder[i] : i \in 1..5 }
    /\ settings = CatalogDefaults

\* C8: at page load the site URL and the contact are empty and the policies
\* are the catalog defaults over exactly the five catalog names; the text
\* generated from these inputs is the 18-line example, which starts with the
\* "your site" header, ends with CCBot's "Disallow: /" and has no contact line.
C8_PageLoadDefaults ==
    /\ events = 0 => IsPageLoadFormState
    /\ (IsPageLoadFormState /\ ~effectPending) =>
         /\ generatedContent = EndToEndExample
         /\ Len(Split(generatedContent)) = 18

\* the first regeneration has run on the untouched form
C8_Witness ==
    /\ events = 0
    /\ ~effectPending
    /\ regenerations = 1

----------------------------------------------------------------------------
(* C9 *)

\* C9: whenever the copied indicator is true, the text last written
\* successfully to the clipboard is the currently generated text.
C9_CopiedMeansClipboardCurrent ==
    copied => clipboard = << generatedContent >>

----------------------------------------------------------------------------
(* C10 *)

Quiescent ==
    /\ ~effectPending
    /\ generatedContent = GenerateContent(siteUrl, contact, settings)
    /\ dirty => ~copied

\* C10: only a change of the site URL, the contact or the policies triggers
\* the regeneration effect, so the effect has run (or is pending) once for
\* the first render and once per input event, never for a step that is no
\* input event; and whenever no clipboard write is pending the page comes to
\* rest with no regeneration pending, the text equal to the generator's output
\* for the form state, and the copied indicator false if an input changed
\* since the last successful copy.
C10_OneRegenerationPerInput ==
    /\ [](regenerations + (IF effectPending THEN 1 ELSE 0) = inputEvents + 1)
    /\ [][inputEvents' = inputEvents =>
            regenerations' + (IF effectPending' THEN 1 ELSE 0)
              = regenerations + (IF effectPending THEN 1 ELSE 0)]_vars
    /\ (pendingWrites = <<>>) ~> Quiescent

\* at rest after a successful copy followed by an input event
C10_Witness ==
    /\ Quiescent
    /\ pendingWrites = <<>>
    /\ clipboard # <<>>
    /\ dirty
    /\ inputEvents >= 2

====
